---- MODULE Spec2Model ----
(***************************************************************************)
(* ResizableRectItem (resizable_rect_item.py): a QGraphicsRectItem with    *)
(* eight resize handles, driven by the mouse and hover events of the       *)
(* hosting QGraphicsScene.                                                 *)
(*                                                                         *)
(* Lengths are integers counting 1/Unit of a Qt unit, so that the halves   *)
(* produced by b.center() and s / 2 are represented exactly.               *)
(*                                                                         *)
(* Events are taken as the scene delivers them to the item: a press of a   *)
(* button that is up, moves and releases while a button is down, hover     *)
(* events while none is. Spec has two mouse buttons, so that presses and   *)
(* releases need not alternate; SpecAlternate has one.                     *)
(***************************************************************************)
EXTENDS Integers, Sequences, FiniteSets, TLC

\* ------------------------------------------------------------------ bounds
\* the number of mouse press, move and release events delivered to the item
MaxMouseEvents == 5

\* --------------------------------------------------------------- constants
Unit == 2

handleTopLeft == 0
handleTopMiddle == 1
handleTopRight == 2
handleMiddleLeft == 3
handleMiddleRight == 4
handleBottomLeft == 5
handleBottomMiddle == 6
handleBottomRight == 7

handleSize == 8
handleSpace == -4

HandleIndex == handleTopLeft..handleBottomRight

\* Python's None, and a value that is not None
None == <<>>
Some(v) == <<v>>
Val(o) == o[1]

\* ------------------------------------------------------- QPointF and QRectF
QPointF(px, py) == [x |-> px, y |-> py]
QRectF(px, py, pw, ph) == [x |-> px, y |-> py, w |-> pw, h |-> ph]

left(r) == r.x
top(r) == r.y
right(r) == r.x + r.w
bottom(r) == r.y + r.h
\* a centre measured from the origin instead of from the rect's left edge
centerXFromOrigin(r) == r.w \div 2

centerX(r) == r.x + r.w \div 2
centerY(r) == r.y + r.h \div 2

setLeft(r, p) == LET diff == p - r.x IN [r EXCEPT !.x = r.x + diff, !.w = r.w - diff]
setTop(r, p) == LET diff == p - r.y IN [r EXCEPT !.y = r.y + diff, !.h = r.h - diff]
setRight(r, p) == [r EXCEPT !.w = p - r.x]
setBottom(r, p) == [r EXCEPT !.h = p - r.y]

adjusted(r, dx1, dy1, dx2, dy2) ==
    QRectF(r.x + dx1, r.y + dy1, r.w + dx2 - dx1, r.h + dy2 - dy1)

\* mutant: the vertical test reads the point's x
containsTestsXTwice(r, p) ==
    LET l == IF r.w < 0 THEN r.x + r.w ELSE r.x
        rr == IF r.w < 0 THEN r.x ELSE r.x + r.w
        t == IF r.h < 0 THEN r.y + r.h ELSE r.y
        b == IF r.h < 0 THEN r.y ELSE r.y + r.h
    IN  /\ l # rr
        /\ ~(p.x < l \/ p.x > rr)
        /\ t # b
        /\ ~(p.x < t \/ p.x > b)

\* QRectF::contains(QPointF): edges included, a null extent contains nothing
contains(r, p) ==
    LET l == IF r.w < 0 THEN r.x + r.w ELSE r.x
        rr == IF r.w < 0 THEN r.x ELSE r.x + r.w
        t == IF r.h < 0 THEN r.y + r.h ELSE r.y
        b == IF r.h < 0 THEN r.y ELSE r.y + r.h
    IN  /\ l # rr
        /\ ~(p.x < l \/ p.x > rr)
        /\ t # b
        /\ ~(p.y < t \/ p.y > b)

\* ------------------------------------------------------------ the item
VARIABLES
    rect,              \* QGraphicsRectItem.rect(), item coordinates
    pos,               \* QGraphicsItem.pos(), scene coordinates
    selected,          \* QGraphicsItem.isSelected()
    cursor,            \* the cursor set by setCursor
    handles,           \* self.handles
    handleSelected,    \* self.handleSelected
    mousePressPos,     \* self.mousePressPos
    mousePressRect,    \* self.mousePressRect
    mouseMoveEvent,    \* self.mouseMoveEvent, the installed move handler
    buttons,           \* the scene's pressed mouse buttons
    buttonDownScenePos,          \* event.buttonDownScenePos(Qt.LeftButton) while that button is down
    movingItemsInitialPositions, \* the scene's record of the item's pos at the start of a move
    ev,                \* the event delivered last: its kind, its pos() and its scenePos()
    painted,           \* the painter calls of the event delivered last, if it was a paint
    raised,            \* whether the handler of the event delivered last raised
    session,           \* the last press, until a release: rect() and pos() of the item
                       \* at that time, and the pos() of the event
    mouseEvents,       \* the number of press, move and release events delivered
    moves              \* moves delivered since the last press or release: 0, 1, or 2 for more

vars == <<rect, pos, selected, cursor, handles, handleSelected, mousePressPos,
          mousePressRect, mouseMoveEvent, buttons, buttonDownScenePos,
          movingItemsInitialPositions, ev, painted, raised, session,
          mouseEvents, moves>>

\* mutant: the handle space left out of the offset
boundingRectWithoutSpace(r) ==
    LET o == handleSize * Unit
    IN  adjusted(r, -o, -o, o, o)

boundingRect(r) ==
    LET o == (handleSize + handleSpace) * Unit
    IN  adjusted(r, -o, -o, o, o)

initHandles(r) ==
    LET s == handleSize * Unit
        b == boundingRect(r)
    IN  << QRectF(left(b), top(b), s, s),
           QRectF(centerX(b) - s \div 2, top(b), s, s),
           QRectF(right(b) - s, top(b), s, s),
           QRectF(left(b), centerY(b) - s \div 2, s, s),
           QRectF(right(b) - s, centerY(b) - s \div 2, s, s),
           QRectF(left(b), bottom(b) - s, s, s),
           QRectF(centerX(b) - s \div 2, bottom(b) - s, s, s),
           QRectF(right(b) - s, bottom(b) - s, s, s) >>

setRect(old, px, py, pw, ph) == [old EXCEPT !.x = px, !.y = py, !.w = pw, !.h = ph]

\* mutant: only the corner handles are moved
updateHandlesPosCornersOnly(hs, r) ==
    LET s == handleSize * Unit
        b == boundingRect(r)
    IN  << setRect(hs[handleTopLeft + 1], left(b), top(b), s, s),
           hs[handleTopMiddle + 1],
           setRect(hs[handleTopRight + 1], right(b) - s, top(b), s, s),
           hs[handleMiddleLeft + 1],
           hs[handleMiddleRight + 1],
           setRect(hs[handleBottomLeft + 1], left(b), bottom(b) - s, s, s),
           hs[handleBottomMiddle + 1],
           setRect(hs[handleBottomRight + 1], right(b) - s, bottom(b) - s, s, s) >>

updateHandlesPos(hs, r) ==
    LET s == handleSize * Unit
        b == boundingRect(r)
    IN  << setRect(hs[handleTopLeft + 1], left(b), top(b), s, s),
           setRect(hs[handleTopMiddle + 1], centerX(b) - s \div 2, top(b), s, s),
           setRect(hs[handleTopRight + 1], right(b) - s, top(b), s, s),
           setRect(hs[handleMiddleLeft + 1], left(b), centerY(b) - s \div 2, s, s),
           setRect(hs[handleMiddleRight + 1], right(b) - s, centerY(b) - s \div 2, s, s),
           setRect(hs[handleBottomLeft + 1], left(b), bottom(b) - s, s, s),
           setRect(hs[handleBottomMiddle + 1], centerX(b) - s \div 2, bottom(b) - s, s, s),
           setRect(hs[handleBottomRight + 1], right(b) - s, bottom(b) - s, s, s) >>

\* mutant: the loop does not stop at the first handle found
RECURSIVE handleAtFromLast(_, _, _)
handleAtFromLast(hs, point, k) ==
    IF k > Len(hs) THEN None
    ELSE LET later == handleAtFromLast(hs, point, k + 1)
         IN  IF later # None THEN later
             ELSE IF contains(hs[k], point) THEN Some(k - 1)
             ELSE None

RECURSIVE handleAtFrom(_, _, _)
handleAtFrom(hs, point, k) ==
    IF k > Len(hs) THEN None
    ELSE IF contains(hs[k], point) THEN Some(k - 1)
    ELSE handleAtFrom(hs, point, k + 1)

handleAt(hs, point) == handleAtFrom(hs, point, 1)

\* ------------------------------------------------- the eight resize handlers
\* Each takes self.rect(), self.mousePressRect, self.mousePressPos and
\* mouseEvent.pos(), and gives the rect handed to self.setRect.
\* a top-left handler that stops the dragged edges at the opposite edges
mouseMoveEventTopLeftClamped(r, pressRect, pressPos, mousePos) ==
    LET offset == (handleSize + handleSpace) * Unit
        bRect == boundingRect(r)
        toX == left(pressRect) + mousePos.x - pressPos.x
        toY == top(pressRect) + mousePos.y - pressPos.y
        b1 == setTop(setLeft(bRect, toX), toY)
        newLeft == IF left(b1) + offset > right(r) THEN right(r) ELSE left(b1) + offset
        newTop == IF top(b1) + offset > bottom(r) THEN bottom(r) ELSE top(b1) + offset
    IN  setTop(setLeft(r, newLeft), newTop)

mouseMoveEventTopLeft(r, pressRect, pressPos, mousePos) ==
    LET offset == (handleSize + handleSpace) * Unit
        bRect == boundingRect(r)
        fromX == left(pressRect)
        fromY == top(pressRect)
        toX == fromX + mousePos.x - pressPos.x
        toY == fromY + mousePos.y - pressPos.y
        b1 == setTop(setLeft(bRect, toX), toY)
    IN  setTop(setLeft(r, left(b1) + offset), top(b1) + offset)

mouseMoveEventTopMiddle(r, pressRect, pressPos, mousePos) ==
    LET offset == (handleSize + handleSpace) * Unit
        bRect == boundingRect(r)
        fromY == top(pressRect)
        toY == fromY + mousePos.y - pressPos.y
        b1 == setTop(bRect, toY)
    IN  setTop(r, top(b1) + offset)

mouseMoveEventTopRight(r, pressRect, pressPos, mousePos) ==
    LET offset == (handleSize + handleSpace) * Unit
        bRect == boundingRect(r)
        fromX == right(pressRect)
        fromY == top(pressRect)
        toX == fromX + mousePos.x - pressPos.x
        toY == fromY + mousePos.y - pressPos.y
        b1 == setTop(setRight(bRect, toX), toY)
    IN  setTop(setRight(r, right(b1) - offset), top(b1) + offset)

mouseMoveEventMiddleLeft(r, pressRect, pressPos, mousePos) ==
    LET offset == (handleSize + handleSpace) * Unit
        bRect == boundingRect(r)
        fromX == left(pressRect)
        toX == fromX + mousePos.x - pressPos.x
        b1 == setLeft(bRect, toX)
    IN  setLeft(r, left(b1) + offset)

\* mutant: the travel is added to the current right edge, not the press-time one
mouseMoveEventMiddleRightFromCurrent(r, pressRect, pressPos, mousePos) ==
    LET offset == (handleSize + handleSpace) * Unit
        bRect == boundingRect(r)
        fromX == right(bRect)
        toX == fromX + mousePos.x - pressPos.x
        b1 == setRight(bRect, toX)
    IN  setRight(r, right(b1) - offset)

mouseMoveEventMiddleRight(r, pressRect, pressPos, mousePos) ==
    LET offset == (handleSize + handleSpace) * Unit
        bRect == boundingRect(r)
        fromX == right(pressRect)
        toX == fromX + mousePos.x - pressPos.x
        b1 == setRight(bRect, toX)
    IN  setRight(r, right(b1) - offset)

mouseMoveEventBottomLeft(r, pressRect, pressPos, mousePos) ==
    LET offset == (handleSize + handleSpace) * Unit
        bRect == boundingRect(r)
        fromX == left(pressRect)
        fromY == bottom(pressRect)
        toX == fromX + mousePos.x - pressPos.x
        toY == fromY + mousePos.y - pressPos.y
        b1 == setBottom(setLeft(bRect, toX), toY)
    IN  setBottom(setLeft(r, left(b1) + offset), bottom(b1) - offset)

mouseMoveEventBottomMiddle(r, pressRect, pressPos, mousePos) ==
    LET offset == (handleSize + handleSpace) * Unit
        bRect == boundingRect(r)
        fromY == bottom(pressRect)
        toY == fromY + mousePos.y - pressPos.y
        b1 == setBottom(bRect, toY)
    IN  setBottom(r, bottom(b1) - offset)

\* mutant: the offset is not taken off the right edge
mouseMoveEventBottomRightNoOffset(r, pressRect, pressPos, mousePos) ==
    LET offset == (handleSize + handleSpace) * Unit
        bRect == boundingRect(r)
        fromX == right(pressRect)
        fromY == bottom(pressRect)
        toX == fromX + mousePos.x - pressPos.x
        toY == fromY + mousePos.y - pressPos.y
        b1 == setBottom(setRight(bRect, toX), toY)
    IN  setBottom(setRight(r, right(b1)), bottom(b1) - offset)

mouseMoveEventBottomRight(r, pressRect, pressPos, mousePos) ==
    LET offset == (handleSize + handleSpace) * Unit
        bRect == boundingRect(r)
        fromX == right(pressRect)
        fromY == bottom(pressRect)
        toX == fromX + mousePos.x - pressPos.x
        toY == fromY + mousePos.y - pressPos.y
        b1 == setBottom(setRight(bRect, toX), toY)
    IN  setBottom(setRight(r, right(b1) - offset), bottom(b1) - offset)

\* self.mouseMoveEventByHandle: the handler installed for each handle index
mouseMoveEventByHandle ==
    << "TopLeft", "TopMiddle", "TopRight", "MiddleLeft",
       "MiddleRight", "BottomLeft", "BottomMiddle", "BottomRight" >>

\* the call self.mouseMoveEvent(mouseEvent) when a resize handler is installed
resizeHandler(name, r, pressRect, pressPos, mousePos) ==
    CASE name = "TopLeft" -> mouseMoveEventTopLeft(r, pressRect, pressPos, mousePos)
      [] name = "TopMiddle" -> mouseMoveEventTopMiddle(r, pressRect, pressPos, mousePos)
      [] name = "TopRight" -> mouseMoveEventTopRight(r, pressRect, pressPos, mousePos)
      [] name = "MiddleLeft" -> mouseMoveEventMiddleLeft(r, pressRect, pressPos, mousePos)
      [] name = "MiddleRight" -> mouseMoveEventMiddleRight(r, pressRect, pressPos, mousePos)
      [] name = "BottomLeft" -> mouseMoveEventBottomLeft(r, pressRect, pressPos, mousePos)
      [] name = "BottomMiddle" -> mouseMoveEventBottomMiddle(r, pressRect, pressPos, mousePos)
      [] name = "BottomRight" -> mouseMoveEventBottomRight(r, pressRect, pressPos, mousePos)

\* a cursor table with the two diagonals exchanged
handleCursorsDiagonalsSwapped ==
    << "SizeBDiagCursor", "SizeVerCursor", "SizeFDiagCursor", "SizeHorCursor",
       "SizeHorCursor", "SizeFDiagCursor", "SizeVerCursor", "SizeBDiagCursor" >>

\* ---------------------------------------------------------------- cursors
handleCursors ==
    << "SizeFDiagCursor", "SizeVerCursor", "SizeBDiagCursor", "SizeHorCursor",
       "SizeHorCursor", "SizeBDiagCursor", "SizeVerCursor", "SizeFDiagCursor" >>

\* ------------------------------------------------------------------ inputs
Pt(ux, uy) == QPointF(ux * Unit, uy * Unit)

\* the rect handed to the constructor: main() builds ResizableRectItem(0, 0, 300, 150)
InitRects == { QRectF(0, 0, 300 * Unit, 150 * Unit) }

\* where the pointer can go down, in scene coordinates: on each of the
\* eight handles of the constructed rect, and on its body
PressPoints ==
    { Pt(4, 4), Pt(5, 5), Pt(150, 0), Pt(300, 0), Pt(0, 75), Pt(300, 75), Pt(0, 150),
      Pt(150, 150), Pt(300, 150), Pt(150, 75) }

\* where the pointer can be dragged to, in scene coordinates
MovePoints == { Pt(19, 29), Pt(20, 30), Pt(160, 80), Pt(310, 160), Pt(0, 0) }

\* where the pointer can hover, in scene coordinates
HoverPoints ==
    { Pt(4, 4), Pt(150, 0), Pt(300, 0), Pt(0, 75), Pt(300, 75), Pt(0, 150),
      Pt(150, 150), Pt(300, 150), Pt(150, 75) }

Buttons == {"Left", "Right"}

\* ----------------------------------------------------------------- __init__
Init ==
    /\ rect \in InitRects
    /\ pos = QPointF(0, 0)
    /\ selected = FALSE
    /\ cursor = "unset"
    /\ handles = initHandles(rect)
    /\ handleSelected = None
    /\ mousePressPos = None
    /\ mousePressRect = None
    /\ mouseMoveEvent = "Center"
    /\ buttons = {}
    /\ buttonDownScenePos = None
    /\ movingItemsInitialPositions = None
    /\ ev = [kind |-> "init", pos |-> None, scenePos |-> None]
    /\ painted = None
    /\ raised = FALSE
    /\ session = None
    /\ mouseEvents = 0
    /\ moves = 0

\* mouseEvent.pos(): the scene position in item coordinates (the item is a
\* top-level item without transformation, moved by pos only)
mapFromScene(scenePos) == QPointF(scenePos.x - pos.x, scenePos.y - pos.y)

\* mutant: the press point and rect are recorded whether or not a handle is hit
MousePressRecordsAlways(button, scenePos) ==
    /\ mouseEvents < MaxMouseEvents
    /\ button \notin buttons
    /\ LET point == mapFromScene(scenePos)
           h == handleAt(handles, point)
       IN  /\ handleSelected' = h
           /\ mousePressPos' = Some(point)
           /\ mousePressRect' = Some(boundingRect(rect))
           /\ mouseMoveEvent' = IF h # None THEN mouseMoveEventByHandle[Val(h) + 1]
                                ELSE "Center"
           /\ ev' = [kind |-> "press", pos |-> Some(point), scenePos |-> Some(scenePos)]
           /\ session' = Some([rect |-> rect, itemPos |-> pos, pos |-> point])
    /\ selected' = IF button = "Left" THEN TRUE ELSE selected
    /\ buttons' = buttons \cup {button}
    /\ buttonDownScenePos' = IF button = "Left" THEN Some(scenePos) ELSE buttonDownScenePos
    /\ mouseEvents' = mouseEvents + 1
    /\ moves' = 0
    /\ painted' = None
    /\ raised' = FALSE
    /\ UNCHANGED <<rect, pos, cursor, handles, movingItemsInitialPositions>>

\* ------------------------------------------------------------ mousePressEvent
MousePress(button, scenePos) ==
    /\ mouseEvents < MaxMouseEvents
    /\ button \notin buttons
    /\ LET point == mapFromScene(scenePos)
           h == handleAt(handles, point)
       IN  /\ handleSelected' = h
           /\ IF h # None
              THEN /\ mousePressPos' = Some(point)
                   /\ mousePressRect' = Some(boundingRect(rect))
                   /\ mouseMoveEvent' = mouseMoveEventByHandle[Val(h) + 1]
              ELSE /\ mouseMoveEvent' = "Center"
                   /\ UNCHANGED <<mousePressPos, mousePressRect>>
           /\ ev' = [kind |-> "press", pos |-> Some(point), scenePos |-> Some(scenePos)]
           /\ session' = Some([rect |-> rect, itemPos |-> pos, pos |-> point])
    \* super().mousePressEvent: the left button selects the selectable item;
    \* the scene records the button and where it went down
    /\ selected' = IF button = "Left" THEN TRUE ELSE selected
    /\ buttons' = buttons \cup {button}
    /\ buttonDownScenePos' = IF button = "Left" THEN Some(scenePos) ELSE buttonDownScenePos
    /\ mouseEvents' = mouseEvents + 1
    /\ moves' = 0
    /\ painted' = None
    /\ raised' = FALSE
    /\ UNCHANGED <<rect, pos, cursor, handles, movingItemsInitialPositions>>

\* ------------------------------------------------------------- mouseMoveEvent
\* super().mouseMoveEvent of a movable item: with the left button down the item
\* is set to its position at the start of the move plus the pointer's travel
\* since the left button went down
\* mutant: the travel is added to the current position
superMouseMoveEventPosFromCurrent(p, initial, scenePos, downPos) ==
    QPointF(p.x + scenePos.x - downPos.x, p.y + scenePos.y - downPos.y)

superMouseMoveEventPos(p, initial, scenePos, downPos) ==
    QPointF(initial.x + scenePos.x - downPos.x, initial.y + scenePos.y - downPos.y)

\* a move whose resize branch also runs the whole-shape move of the base class
MouseMoveResizeAlsoMoves(scenePos) ==
    /\ mouseEvents < MaxMouseEvents
    /\ buttons # {}
    /\ LET point == mapFromScene(scenePos)
           initial == IF movingItemsInitialPositions = None
                      THEN pos
                      ELSE Val(movingItemsInitialPositions)
           moved == /\ movingItemsInitialPositions' = Some(initial)
                    /\ pos' = superMouseMoveEventPos(pos, initial, scenePos,
                                                     Val(buttonDownScenePos))
                    /\ selected' = TRUE
       IN  /\ ev' = [kind |-> "move", pos |-> Some(point), scenePos |-> Some(scenePos)]
           /\ IF mouseMoveEvent = "Center"
              THEN /\ IF "Left" \in buttons
                      THEN moved
                      ELSE UNCHANGED <<movingItemsInitialPositions, pos, selected>>
                   /\ raised' = FALSE
                   /\ UNCHANGED <<rect, handles>>
              ELSE IF mousePressRect = None \/ mousePressPos = None
              THEN /\ raised' = TRUE
                   /\ UNCHANGED <<rect, handles, movingItemsInitialPositions, pos, selected>>
              ELSE /\ rect' = resizeHandler(mouseMoveEvent, rect, Val(mousePressRect),
                                            Val(mousePressPos), point)
                   /\ handles' = updateHandlesPos(handles, rect')
                   /\ raised' = FALSE
                   /\ IF "Left" \in buttons
                      THEN moved
                      ELSE UNCHANGED <<movingItemsInitialPositions, pos, selected>>
    /\ mouseEvents' = mouseEvents + 1
    /\ moves' = IF moves = 0 THEN 1 ELSE 2
    /\ painted' = None
    /\ UNCHANGED <<cursor, handleSelected, mousePressPos, mousePressRect, mouseMoveEvent,
                   buttons, buttonDownScenePos, session>>

MouseMove(scenePos) ==
    /\ mouseEvents < MaxMouseEvents
    /\ buttons # {}
    /\ LET point == mapFromScene(scenePos)
       IN  /\ ev' = [kind |-> "move", pos |-> Some(point), scenePos |-> Some(scenePos)]
           /\ IF mouseMoveEvent = "Center"
              THEN /\ IF "Left" \in buttons
                      THEN LET initial == IF movingItemsInitialPositions = None
                                          THEN pos
                                          ELSE Val(movingItemsInitialPositions)
                           IN  /\ movingItemsInitialPositions' = Some(initial)
                               /\ pos' = superMouseMoveEventPos(pos, initial, scenePos,
                                                                Val(buttonDownScenePos))
                               /\ selected' = TRUE
                      ELSE UNCHANGED <<movingItemsInitialPositions, pos, selected>>
                   /\ raised' = FALSE
                   /\ UNCHANGED <<rect, handles>>
              ELSE IF mousePressRect = None \/ mousePressPos = None
              THEN \* self.mousePressRect.left() on None: AttributeError
                   /\ raised' = TRUE
                   /\ UNCHANGED <<rect, handles, movingItemsInitialPositions, pos, selected>>
              ELSE /\ rect' = resizeHandler(mouseMoveEvent, rect, Val(mousePressRect),
                                            Val(mousePressPos), point)
                   /\ handles' = updateHandlesPos(handles, rect')
                   /\ raised' = FALSE
                   /\ UNCHANGED <<movingItemsInitialPositions, pos, selected>>
    /\ mouseEvents' = mouseEvents + 1
    /\ moves' = IF moves = 0 THEN 1 ELSE 2
    /\ painted' = None
    /\ UNCHANGED <<cursor, handleSelected, mousePressPos, mousePressRect, mouseMoveEvent,
                   buttons, buttonDownScenePos, session>>

\* mutant: the selected handle is not reset
MouseReleaseKeepsHandle(button) ==
    /\ mouseEvents < MaxMouseEvents
    /\ button \in buttons
    /\ buttons' = buttons \ {button}
    /\ movingItemsInitialPositions' =
           IF buttons' = {} THEN None ELSE movingItemsInitialPositions
    /\ mousePressPos' = None
    /\ mousePressRect' = None
    /\ ev' = [kind |-> "release", pos |-> None, scenePos |-> None]
    /\ painted' = None
    /\ raised' = FALSE
    /\ buttonDownScenePos' = IF button = "Left" THEN None ELSE buttonDownScenePos
    /\ session' = None
    /\ moves' = 0
    /\ mouseEvents' = mouseEvents + 1
    /\ UNCHANGED <<rect, pos, selected, cursor, handles, mouseMoveEvent, handleSelected>>

\* mutant: the release puts the press-time rect back
MouseReleaseRollsBack(button) ==
    /\ mouseEvents < MaxMouseEvents
    /\ button \in buttons
    /\ buttons' = buttons \ {button}
    /\ movingItemsInitialPositions' =
           IF buttons' = {} THEN None ELSE movingItemsInitialPositions
    /\ rect' = IF mousePressRect = None THEN rect
               ELSE LET o == (handleSize + handleSpace) * Unit
                    IN  adjusted(Val(mousePressRect), o, o, -o, -o)
    /\ handles' = updateHandlesPos(handles, rect')
    /\ handleSelected' = None
    /\ mousePressPos' = None
    /\ mousePressRect' = None
    /\ ev' = [kind |-> "release", pos |-> None, scenePos |-> None]
    /\ painted' = None
    /\ raised' = FALSE
    /\ buttonDownScenePos' = IF button = "Left" THEN None ELSE buttonDownScenePos
    /\ session' = None
    /\ moves' = 0
    /\ mouseEvents' = mouseEvents + 1
    /\ UNCHANGED <<pos, selected, cursor, mouseMoveEvent>>

\* ---------------------------------------------------------- mouseReleaseEvent
MouseRelease(button) ==
    /\ mouseEvents < MaxMouseEvents
    /\ button \in buttons
    \* super().mouseReleaseEvent: the scene forgets the move once no button is down
    /\ buttons' = buttons \ {button}
    /\ movingItemsInitialPositions' =
           IF buttons' = {} THEN None ELSE movingItemsInitialPositions
    /\ handleSelected' = None
    /\ mousePressPos' = None
    /\ mousePressRect' = None
    /\ ev' = [kind |-> "release", pos |-> None, scenePos |-> None]
    /\ painted' = None
    /\ raised' = FALSE
    /\ buttonDownScenePos' = IF button = "Left" THEN None ELSE buttonDownScenePos
    /\ session' = None
    /\ moves' = 0
    /\ mouseEvents' = mouseEvents + 1
    /\ UNCHANGED <<rect, pos, selected, cursor, handles, mouseMoveEvent>>

\* ------------------------------------------------------------- hoverMoveEvent
\* the cursor that hoverMoveEvent asks for when the item is selected
hoverCursor(hs, point) ==
    LET handle == handleAt(hs, point)
    IN  IF handle = None THEN "ArrowCursor" ELSE handleCursors[Val(handle) + 1]

\* the handler itself
hoverMoveEvent(scenePos) ==
    /\ LET point == mapFromScene(scenePos)
       IN  /\ cursor' = IF selected THEN hoverCursor(handles, point) ELSE cursor
           /\ ev' = [kind |-> "hoverMove", pos |-> Some(point), scenePos |-> Some(scenePos)]
    /\ painted' = None
    /\ raised' = FALSE
    /\ UNCHANGED <<rect, pos, selected, handles, handleSelected, mousePressPos,
                   mousePressRect, mouseMoveEvent, buttons, buttonDownScenePos,
                   movingItemsInitialPositions, session, mouseEvents, moves>>

\* the scene delivers hover events only while no button is down
HoverMove(scenePos) ==
    /\ buttons = {}
    /\ hoverMoveEvent(scenePos)

\* ------------------------------------------------------------ hoverLeaveEvent
\* a hover-leave that gives the drag up
hoverLeaveEventCancelsDrag ==
    /\ cursor' = "ArrowCursor"
    /\ handleSelected' = None
    /\ mousePressPos' = None
    /\ mousePressRect' = None
    /\ ev' = [kind |-> "hoverLeave", pos |-> None, scenePos |-> None]
    /\ painted' = None
    /\ raised' = FALSE
    /\ UNCHANGED <<rect, pos, selected, handles, mouseMoveEvent, buttons,
                   buttonDownScenePos, movingItemsInitialPositions, session,
                   mouseEvents, moves>>

\* the handler itself
hoverLeaveEvent ==
    /\ cursor' = "ArrowCursor"
    /\ ev' = [kind |-> "hoverLeave", pos |-> None, scenePos |-> None]
    /\ painted' = None
    /\ raised' = FALSE
    /\ UNCHANGED <<rect, pos, selected, handles, handleSelected, mousePressPos,
                   mousePressRect, mouseMoveEvent, buttons, buttonDownScenePos,
                   movingItemsInitialPositions, session, mouseEvents, moves>>

\* delivered, like hover-move, only while no button is down
HoverLeave ==
    /\ buttons = {}
    /\ hoverLeaveEvent

\* ----------------------------------------------------------------------- paint
\* a loop that draws every handle, whatever is selected
paintHandlesAll(hs, sel) == [k \in 1..Len(hs) |-> k - 1]

\* the handle markers drawn, in drawing order
paintHandles(hs, sel) ==
    SelectSeq([k \in 1..Len(hs) |-> k - 1], LAMBDA handle : sel = None \/ handle = Val(sel))

\* the painter calls of one paint, in order: the rect, then one ellipse for
\* each handle that the loop draws
paint(r, hs, sel) ==
    LET drawn == paintHandles(hs, sel)
    IN  << [op |-> "drawRect", r |-> r] >>
        \o [i \in 1..Len(drawn) |-> [op |-> "drawEllipse", r |-> hs[drawn[i] + 1]]]

Paint ==
    /\ painted' = Some(paint(rect, handles, handleSelected))
    /\ ev' = [kind |-> "paint", pos |-> None, scenePos |-> None]
    /\ raised' = FALSE
    /\ UNCHANGED <<rect, pos, selected, cursor, handles, handleSelected, mousePressPos,
                   mousePressRect, mouseMoveEvent, buttons, buttonDownScenePos,
                   movingItemsInitialPositions, session, mouseEvents, moves>>

\* ------------------------------------------------------------ specifications
Next ==
    \/ \E b \in Buttons, p \in PressPoints : MousePress(b, p)
    \/ \E p \in MovePoints : MouseMove(p)
    \/ \E b \in Buttons : MouseRelease(b)
    \/ \E p \in HoverPoints : HoverMove(p)
    \/ HoverLeave
    \/ Paint

Spec == Init /\ [][Next]_vars

\* presses and releases delivered alternately: a single mouse button
NextAlternate ==
    \/ \E p \in PressPoints : MousePress("Left", p)
    \/ \E p \in MovePoints : MouseMove(p)
    \/ MouseRelease("Left")
    \/ \E p \in HoverPoints : HoverMove(p)
    \/ HoverLeave
    \/ Paint

SpecAlternate == Init /\ [][NextAlternate]_vars

\* the mouse events of a single button alone: the events that change the rect
NextMouse ==
    \/ \E p \in PressPoints : MousePress("Left", p)
    \/ \E p \in MovePoints : MouseMove(p)
    \/ MouseRelease("Left")

SpecMouse == Init /\ [][NextMouse]_vars

\* a single mouse button, and the hover handlers called at any time, also in
\* the middle of a drag, where the scene itself would hold them back
NextHoverAnyTime ==
    \/ \E p \in PressPoints : MousePress("Left", p)
    \/ \E p \in MovePoints : MouseMove(p)
    \/ MouseRelease("Left")
    \/ \E p \in HoverPoints : hoverMoveEvent(p)
    \/ hoverLeaveEvent
    \/ Paint

SpecHoverAnyTime == Init /\ [][NextHoverAnyTime]_vars

\* ================================================================== claims
\* the edges (left, top, right, bottom) of a rect, in model lengths
Edges(r) == << r.x, r.y, r.x + r.w, r.y + r.h >>

\* the edge transform of the eight handles: which edges of (L, T, R, B) follow
\* the pointer's travel (dx, dy)
TransformTable(h, e, dx, dy) ==
    CASE h = 0 -> << e[1] + dx, e[2] + dy, e[3], e[4] >>
      [] h = 1 -> << e[1], e[2] + dy, e[3], e[4] >>
      [] h = 2 -> << e[1], e[2] + dy, e[3] + dx, e[4] >>
      [] h = 3 -> << e[1] + dx, e[2], e[3], e[4] >>
      [] h = 4 -> << e[1], e[2], e[3] + dx, e[4] >>
      [] h = 5 -> << e[1] + dx, e[2], e[3], e[4] + dy >>
      [] h = 6 -> << e[1], e[2], e[3], e[4] + dy >>
      [] h = 7 -> << e[1], e[2], e[3] + dx, e[4] + dy >>

\* C1: a move inside a session started by a press on handle h sets the rect to
\* the press-time rect (L, T, R, B) with exactly the edges of h's row of the
\* table moved by (dx, dy) = move point - press point (item coordinates), for
\* every handle and every press-time rect, also one left by earlier sessions.
C1_MoveFollowsTable ==
    [][ (ev'.kind = "move" /\ handleSelected # None /\ session # None)
        => LET s == Val(session)
               dx == Val(ev'.pos).x - s.pos.x
               dy == Val(ev'.pos).y - s.pos.y
           IN  Edges(rect') = TransformTable(Val(handleSelected), Edges(s.rect), dx, dy) ]_vars

\* a handle was dragged from a rect that an earlier session had already resized
C1_Witness ==
    /\ ev.kind = "move"
    /\ handleSelected # None
    /\ session # None
    /\ Val(session).rect \notin InitRects
    /\ rect # Val(session).rect

\* C2: within one resize session, the rect after any sequence of moves ending
\* with a move to a point is the rect a single move to that point gives from
\* the press-time state: intermediate moves leave no trace.
C2_AbsoluteFromPress ==
    (moves = 2 /\ ev.kind = "move" /\ handleSelected # None /\ session # None)
    => LET s == Val(session)
       IN  rect = resizeHandler(mouseMoveEventByHandle[Val(handleSelected) + 1], s.rect,
                                boundingRect(s.rect), s.pos, Val(ev.pos))

\* at least two moves were delivered in a resize session and the rect changed
C2_Witness ==
    /\ moves = 2
    /\ ev.kind = "move"
    /\ handleSelected # None
    /\ session # None
    /\ rect # Val(session).rect

\* C3: the eight handle regions are those of the current rect in every state,
\* and press, release, hover and paint leave the handle regions alone.
C3_HandlesFollowRect ==
    /\ [](handles = initHandles(rect))
    /\ [][ ev'.kind \in {"press", "release", "hoverMove", "hoverLeave", "paint"}
           => handles' = handles ]_vars

\* a released drag has left a resized rect
C3_Witness ==
    /\ ev.kind = "release"
    /\ rect \notin InitRects
    /\ handles = initHandles(rect)

\* C4, as stated: from rect (0, 0, 300, 150), a press at (5, 5) selects the
\* top-left handle, and a following move to (20, 30) leaves the rect
\* (15, 25, 300, 150).
C4_AsStated ==
    (session = Some([rect |-> QRectF(0, 0, 300 * Unit, 150 * Unit),
                     itemPos |-> QPointF(0, 0), pos |-> Pt(5, 5)]))
    => /\ handleSelected = Some(handleTopLeft)
       /\ (ev.kind = "move" /\ ev.pos = Some(Pt(20, 30)))
          => Edges(rect) = << 15 * Unit, 25 * Unit, 300 * Unit, 150 * Unit >>

\* C4, amended: from rect (0, 0, 300, 150), a press at (4, 4) selects the
\* top-left handle, and a following move to (19, 29), dx = 15 and dy = 25,
\* leaves the rect (15, 25, 300, 150); a press at (5, 5) selects no handle.
C4_Scenario ==
    /\ (session = Some([rect |-> QRectF(0, 0, 300 * Unit, 150 * Unit),
                        itemPos |-> QPointF(0, 0), pos |-> Pt(4, 4)]))
       => /\ handleSelected = Some(handleTopLeft)
          /\ (ev.kind = "move" /\ ev.pos = Some(Pt(19, 29)))
             => Edges(rect) = << 15 * Unit, 25 * Unit, 300 * Unit, 150 * Unit >>
    /\ (session = Some([rect |-> QRectF(0, 0, 300 * Unit, 150 * Unit),
                        itemPos |-> QPointF(0, 0), pos |-> Pt(5, 5)]))
       => handleSelected = None

\* the amended scenario has been played
C4_Witness ==
    /\ session = Some([rect |-> QRectF(0, 0, 300 * Unit, 150 * Unit),
                       itemPos |-> QPointF(0, 0), pos |-> Pt(4, 4)])
    /\ ev.kind = "move"
    /\ ev.pos = Some(Pt(19, 29))
    /\ handleSelected = Some(handleTopLeft)

\* the rectangle as the scene shows it: rect() moved by pos()
SceneEdges(r, p) == << r.x + p.x, r.y + p.y, r.x + r.w + p.x, r.y + r.h + p.y >>

\* C5: in a session started by a press that hits no handle, a move translates
\* the rectangle by the pointer's travel since the press, width and height
\* unchanged; from rect (0, 0, 300, 150), a press at (150, 75) and a move to
\* (160, 80) give the rectangle (10, 5, 310, 155).
C5_BodyTranslates ==
    (ev.kind = "move" /\ session # None /\ handleSelected = None)
    => LET s == Val(session)
           dx == Val(ev.scenePos).x - (s.pos.x + s.itemPos.x)
           dy == Val(ev.scenePos).y - (s.pos.y + s.itemPos.y)
           e == SceneEdges(s.rect, s.itemPos)
       IN  /\ SceneEdges(rect, pos) = << e[1] + dx, e[2] + dy, e[3] + dx, e[4] + dy >>
           /\ rect.w = s.rect.w
           /\ rect.h = s.rect.h
           /\ (/\ s.rect = QRectF(0, 0, 300 * Unit, 150 * Unit)
               /\ s.itemPos = QPointF(0, 0)
               /\ s.pos = Pt(150, 75)
               /\ ev.scenePos = Some(Pt(160, 80)))
              => SceneEdges(rect, pos) = << 10 * Unit, 5 * Unit, 310 * Unit, 155 * Unit >>

\* the body scenario has been played
C5_Witness ==
    /\ ev.kind = "move"
    /\ handleSelected = None
    /\ session = Some([rect |-> QRectF(0, 0, 300 * Unit, 150 * Unit),
                       itemPos |-> QPointF(0, 0), pos |-> Pt(150, 75)])
    /\ ev.scenePos = Some(Pt(160, 80))
    /\ pos = Pt(10, 5)

\* the closed square of a handle region, and its interior
InRegion(r, p) == r.x <= p.x /\ p.x <= r.x + r.w /\ r.y <= p.y /\ p.y <= r.y + r.h
StrictlyInside(r, p) == r.x < p.x /\ p.x < r.x + r.w /\ r.y < p.y /\ p.y < r.y + r.h

\* the lowest handle index whose region contains the point, if any
FirstHit(hs, p) ==
    LET hits == { k \in HandleIndex : InRegion(hs[k + 1], p) }
    IN  IF hits = {} THEN None
        ELSE Some(CHOOSE k \in hits : \A j \in hits : k <= j)

\* for every handle region: its centre, its corners, the points just outside
\* its corners, and the points on and just outside the middle of its edges
ProbeOffsets ==
    LET s == handleSize * Unit
        c == s \div 2
    IN  { <<c, c>>, <<0, 0>>, <<s, 0>>, <<0, s>>, <<s, s>>,
          <<-1, -1>>, <<s + 1, -1>>, <<-1, s + 1>>, <<s + 1, s + 1>>,
          <<0, c>>, <<s, c>>, <<c, 0>>, <<c, s>>,
          <<-1, c>>, <<s + 1, c>>, <<c, -1>>, <<c, s + 1>> }
Probes(hs) ==
    UNION { { QPointF(hs[k].x + o[1], hs[k].y + o[2]) : o \in ProbeOffsets }
            : k \in 1..Len(hs) }

\* C6: for every point and every reachable set of handle regions, handleAt gives
\* the lowest handle index whose region contains the point, and none exactly
\* when no region contains it.
C6_FirstHandleWins ==
    /\ \A p \in Probes(handles) : handleAt(handles, p) = FirstHit(handles, p)
    /\ ev.pos # None => handleAt(handles, Val(ev.pos)) = FirstHit(handles, Val(ev.pos))

\* a press landed where several handle regions overlap, and selected the first
C6_Witness ==
    /\ ev.kind = "press"
    /\ Cardinality({ k \in HandleIndex : InRegion(handles[k + 1], Val(ev.pos)) }) >= 2
    /\ handleSelected = FirstHit(handles, Val(ev.pos))
    /\ handleSelected # None

\* C7, as stated: handleAt gives h for any point strictly inside handle h's
\* region, and no handle index for a point outside all eight regions.
C7_AsStated ==
    \A p \in Probes(handles) :
        LET got == handleAt(handles, p)
        IN  /\ \A h \in HandleIndex :
                   StrictlyInside(handles[h + 1], p) => got = Some(h)
            /\ (\A h \in HandleIndex : ~InRegion(handles[h + 1], p))
               => got \notin { Some(h) : h \in HandleIndex }

\* C7, amended: handleAt gives h for any point strictly inside handle h's region
\* that lies in no region of a lower handle index, and no handle index for a
\* point outside all eight regions.
C7_StrictlyInsideUnlessOverlapped ==
    \A p \in Probes(handles) :
        LET got == handleAt(handles, p)
        IN  /\ \A h \in HandleIndex :
                   (/\ StrictlyInside(handles[h + 1], p)
                    /\ \A j \in HandleIndex : j < h => ~InRegion(handles[j + 1], p))
                   => got = Some(h)
            /\ (\A h \in HandleIndex : ~InRegion(handles[h + 1], p))
               => got \notin { Some(h) : h \in HandleIndex }

\* a drag has made handle regions overlap: a point strictly inside one handle's
\* region is given to a lower handle
C7_Witness ==
    /\ rect \notin InitRects
    /\ \E p \in Probes(handles) : \E h \in HandleIndex :
           /\ StrictlyInside(handles[h + 1], p)
           /\ handleAt(handles, p) # Some(h)
           /\ handleAt(handles, p) # None

\* C8, as stated: after any press, on a handle or on the body, the press point
\* and the press-time rect are recorded and equal the event's point and the
\* rect at that moment.
C8_AsStated ==
    ev.kind = "press" => (mousePressPos = ev.pos /\ mousePressRect = Some(rect))

\* the rect grown by handleSize + handleSpace = 4 on every side
Grown(r) == QRectF(r.x - 4 * Unit, r.y - 4 * Unit, r.w + 8 * Unit, r.h + 8 * Unit)

\* C8, amended: every press selects the hit-test result at the press point; a
\* press that hits a handle records the press point and the rect grown by 4 on
\* every side; a press that hits no handle records neither and leaves both
\* fields as they were.
C8_PressRecords ==
    [][ ev'.kind = "press"
        => LET hit == FirstHit(handles, Val(ev'.pos))
           IN  /\ handleSelected' = hit
               /\ IF hit # None
                  THEN mousePressPos' = ev'.pos /\ mousePressRect' = Some(Grown(rect))
                  ELSE mousePressPos' = mousePressPos /\ mousePressRect' = mousePressRect
      ]_vars

\* a press on the body has recorded no press point and no rect
C8_Witness ==
    /\ ev.kind = "press"
    /\ handleSelected = None
    /\ mousePressPos = None
    /\ mousePressRect = None

\* C9: with presses and releases delivered alternately, a press takes the item
\* from idle to dragging with the hit-test result selected, every move keeps
\* the selected handle, and the release returns to idle with handle, press
\* point and press-time rect discarded; idle holds no session.
C9_StateMachine ==
    /\ [](buttons = {} => (handleSelected = None /\ mousePressPos = None
                           /\ mousePressRect = None /\ session = None))
    /\ [][ /\ ev'.kind = "press"
              => (/\ buttons = {}
                  /\ buttons' # {}
                  /\ handleSelected' = FirstHit(handles, Val(ev'.pos)))
           /\ ev'.kind = "move"
              => (buttons # {} /\ buttons' = buttons /\ handleSelected' = handleSelected)
           /\ ev'.kind = "release"
              => (/\ buttons # {}
                  /\ buttons' = {}
                  /\ handleSelected' = None
                  /\ mousePressPos' = None
                  /\ mousePressRect' = None)
         ]_vars

\* a resize session has run from press to release
C9_Witness ==
    /\ ev.kind = "release"
    /\ buttons = {}
    /\ mouseMoveEvent # "Center"
    /\ rect \notin InitRects
    /\ handleSelected = None

\* C10: a release leaves the rect, the handle regions and everything but the
\* session fields as the last move (or the press) left them.
C10_ReleaseKeepsGeometry ==
    [][ ev'.kind = "release"
        => (/\ rect' = rect
            /\ handles' = handles
            /\ pos' = pos
            /\ selected' = selected
            /\ cursor' = cursor
            /\ mouseMoveEvent' = mouseMoveEvent) ]_vars

\* a release has ended a session that resized the rect
C10_Witness ==
    /\ ev.kind = "release"
    /\ mousePressRect = None
    /\ rect \notin InitRects


\* an edge quadruple whose right edge is not right of its left edge, or whose
\* bottom edge is not below its top edge
Degenerate(e) == e[3] <= e[1] \/ e[4] <= e[2]

\* C11: no resize is clamped or rejected.  A move in a handle session raises
\* no error, and whenever the table value makes an edge meet or cross the
\* opposite edge, or the session started from such a rect, the rect is stored
\* with exactly the table's edges: the dragged edges at the table value, the
\* others where they were, width and height zero or negative as they come.
C11_NoClamp ==
    [][ (ev'.kind = "move" /\ handleSelected # None /\ session # None)
        => LET s == Val(session)
               dx == Val(ev'.pos).x - s.pos.x
               dy == Val(ev'.pos).y - s.pos.y
               target == TransformTable(Val(handleSelected), Edges(s.rect), dx, dy)
           IN  /\ ~raised'
               /\ (Degenerate(target) \/ Degenerate(Edges(s.rect)))
                  => /\ left(rect') = target[1]
                     /\ top(rect') = target[2]
                     /\ rect'.w = target[3] - target[1]
                     /\ rect'.h = target[4] - target[2] ]_vars

\* a handle was pressed on a rect of negative width and dragged, and the rect
\* it gave has a negative width again
C11_Witness ==
    /\ ev.kind = "move"
    /\ handleSelected # None
    /\ session # None
    /\ Val(session).rect.w < 0
    /\ rect # Val(session).rect
    /\ rect.w < 0
    /\ ~raised


\* C12: a paint draws the rect first and then the handle markers: the eight
\* regions in handle order when no handle is selected (idle, or body drag),
\* the region of the selected handle alone when one is selected; and a paint
\* changes nothing of the item.
C12_PaintDrawsSelection ==
    [][ ev'.kind = "paint"
        => /\ painted' # None
           /\ LET calls == Val(painted')
                  markers == [i \in 1..(Len(calls) - 1) |-> calls[i + 1]]
              IN  /\ calls[1] = [op |-> "drawRect", r |-> rect]
                  /\ IF handleSelected = None
                     THEN markers = [k \in 1..8 |-> [op |-> "drawEllipse", r |-> handles[k]]]
                     ELSE markers = << [op |-> "drawEllipse",
                                        r |-> handles[Val(handleSelected) + 1]] >>
           /\ UNCHANGED <<rect, pos, selected, cursor, handles, handleSelected,
                          mousePressPos, mousePressRect, mouseMoveEvent, buttons,
                          buttonDownScenePos, movingItemsInitialPositions>> ]_vars

\* a paint in the middle of a resize drew the rect and one marker, the one of
\* the selected handle, at its moved place
C12_Witness ==
    /\ ev.kind = "paint"
    /\ handleSelected # None
    /\ session # None
    /\ rect # Val(session).rect
    /\ painted # None
    /\ Len(Val(painted)) = 2


\* the cursor of each hit-test result: one diagonal for the top-left and
\* bottom-right handles, the other diagonal for the top-right and bottom-left
\* ones, vertical for the two on the horizontal edges, horizontal for the two
\* on the vertical edges, the arrow for no handle
CursorFor(hit) ==
    CASE hit = None -> "ArrowCursor"
      [] hit \in {Some(handleTopLeft), Some(handleBottomRight)} -> "SizeFDiagCursor"
      [] hit \in {Some(handleTopRight), Some(handleBottomLeft)} -> "SizeBDiagCursor"
      [] hit \in {Some(handleTopMiddle), Some(handleBottomMiddle)} -> "SizeVerCursor"
      [] hit \in {Some(handleMiddleLeft), Some(handleMiddleRight)} -> "SizeHorCursor"

\* C13: a hover-move at point p while the item is selected sets the cursor to
\* the one mapped to the handle that the hit test gives for p (the arrow when
\* it gives none); while the item is not selected it leaves the cursor as it is.
C13_HoverCursor ==
    [][ ev'.kind = "hoverMove"
        => IF selected
           THEN cursor' = CursorFor(FirstHit(handles, Val(ev'.pos)))
           ELSE cursor' = cursor ]_vars

\* a hover over the bottom-left handle of the selected item set its cursor
C13_Witness ==
    /\ ev.kind = "hoverMove"
    /\ selected
    /\ FirstHit(handles, Val(ev.pos)) = Some(handleBottomLeft)
    /\ cursor = "SizeBDiagCursor"


\* the anchor point of each handle on a rect: its four corners and the
\* midpoints of its four edges
Anchor(r, h) ==
    LET midX == (left(r) + right(r)) \div 2
        midY == (top(r) + bottom(r)) \div 2
    IN  CASE h = handleTopLeft -> QPointF(left(r), top(r))
          [] h = handleTopMiddle -> QPointF(midX, top(r))
          [] h = handleTopRight -> QPointF(right(r), top(r))
          [] h = handleMiddleLeft -> QPointF(left(r), midY)
          [] h = handleMiddleRight -> QPointF(right(r), midY)
          [] h = handleBottomLeft -> QPointF(left(r), bottom(r))
          [] h = handleBottomMiddle -> QPointF(midX, bottom(r))
          [] h = handleBottomRight -> QPointF(right(r), bottom(r))

Area(r) ==
    [ x1 |-> IF r.w < 0 THEN r.x + r.w ELSE r.x,
      x2 |-> IF r.w < 0 THEN r.x ELSE r.x + r.w,
      y1 |-> IF r.h < 0 THEN r.y + r.h ELSE r.y,
      y2 |-> IF r.h < 0 THEN r.y ELSE r.y + r.h ]

\* the outer rect includes the inner one: the inner area lies within the outer
Includes(outer, inner) ==
    LET o == Area(outer)
        i == Area(inner)
    IN  o.x1 <= i.x1 /\ i.x2 <= o.x2 /\ o.y1 <= i.y1 /\ i.y2 <= o.y2

\* C15: in every reachable state the rect that boundingRect returns includes
\* all eight handle regions.
C15_BoundingRectIncludesHandles ==
    \A h \in HandleIndex : Includes(boundingRect(rect), handles[h + 1])

\* what does hold: the bounding rect includes the handle regions as long as
\* the rect's width and height are not negative
C15_HoldsWhileNotInverted ==
    (rect.w >= 0 /\ rect.h >= 0) => C15_BoundingRectIncludesHandles


\* C16: once a press has selected a handle, only a release ends the drag: any
\* other event (hover-move, hover-leave, move, paint) leaves the selected
\* handle, the press point, the press-time snapshot and the installed resize
\* handler as they are, so without a release the item stays in the drag.
C16_OnlyReleaseEndsDrag ==
    [][ (handleSelected # None /\ ev'.kind # "release")
        => /\ ev'.kind \in {"hoverMove", "hoverLeave", "move", "paint"}
           /\ handleSelected' = handleSelected
           /\ mousePressPos' = mousePressPos
           /\ mousePressRect' = mousePressRect
           /\ mouseMoveEvent' = mouseMoveEvent ]_vars

\* a hover-leave arrived in the middle of a resize and the drag is still on
C16_Witness ==
    /\ ev.kind = "hoverLeave"
    /\ handleSelected # None
    /\ mousePressPos # None
    /\ mousePressRect # None
    /\ session # None
    /\ rect # Val(session).rect


\* C17: in every reachable state the installed move handler matches the
\* selected handle: it is the resize handler of h exactly when the selected
\* handle is h, and the whole-shape move handler whenever no handle is selected
\* (at construction, during a body drag, and after every release).
C17_HandlerMatchesSelection ==
    /\ \A h \in HandleIndex :
          (mouseMoveEvent = mouseMoveEventByHandle[h + 1]) <=> (handleSelected = Some(h))
    /\ (handleSelected = None) => (mouseMoveEvent = "Center")

\* what does hold: the handler matches the selection from a press to the next
\* release, that is, whenever a button is down in a single-button run
C17_HoldsWhileButtonDown ==
    (buttons # {}) => C17_HandlerMatchesSelection


\* C18: with presses and releases delivered alternately, the session fields
\* are all-or-nothing: the press point and the press-time snapshot are recorded
\* exactly when a handle is selected, and all three are none otherwise; so no
\* resize handler ever runs without a press point and a snapshot, and none
\* raises an error.
C18_SessionAllOrNothing ==
    /\ (handleSelected # None) <=> (mousePressPos # None)
    /\ (handleSelected # None) <=> (mousePressRect # None)
    /\ (ev.kind = "move" /\ mouseMoveEvent # "Center")
       => (handleSelected # None /\ mousePressPos # None /\ mousePressRect # None)
    /\ ~raised

\* a resize handler ran in a second session, after a release had cleared the
\* fields of the first, and found the press point and snapshot of its own press
C18_Witness ==
    /\ ev.kind = "move"
    /\ mouseMoveEvent # "Center"
    /\ mouseEvents >= 4
    /\ session # None
    /\ mousePressPos = Some(Val(session).pos)
    /\ mousePressRect = Some(boundingRect(Val(session).rect))
    /\ Val(session).rect \notin InitRects


\* C19: resize and move are disjoint.  A move in a session with a selected
\* handle never changes the item's position (it changes the rect and the
\* handle regions); a move in a body session, one whose press hit no handle,
\* never changes the rect, the handle regions or the session fields (it
\* changes the position).
C19_ResizeMoveDisjoint ==
    [][ (ev'.kind = "move" /\ session # None)
        => IF handleSelected # None
           THEN /\ pos' = pos
                /\ movingItemsInitialPositions' = movingItemsInitialPositions
                /\ handles' = initHandles(rect')
           ELSE /\ rect' = rect
                /\ handles' = handles
                /\ handleSelected' = handleSelected
                /\ mousePressPos' = mousePressPos
                /\ mousePressRect' = mousePressRect
                /\ mouseMoveEvent' = mouseMoveEvent
                /\ ~raised' ]_vars

\* a body drag has moved an item whose rect an earlier session had resized:
\* position changed, rect as at the press
C19_Witness ==
    /\ ev.kind = "move"
    /\ handleSelected = None
    /\ session # None
    /\ pos # Val(session).itemPos
    /\ rect = Val(session).rect
    /\ rect \notin InitRects

====
